---- MODULE Spec2Model ----
(***************************************************************************)
(* Score cache and score computation of the molecule agent:               *)
(* DockingTool.compute_scores (tools/docking_tool.py) and the CacheTool   *)
(* operations save_results, get_cached_results, get_cache_stats and       *)
(* clear_cache (tools/cache_tool.py) over the persisted document          *)
(* data/docking_scores.json, which can fail to load and to save.          *)
(*                                                                         *)
(* Scores are kept in tenths (the mock score is rounded to one decimal):  *)
(* -75 stands for -7.5.  A JSON value of the document is a tagged record: *)
(* Num(s) a bare number, Null, or Record(score, ts) the object with the   *)
(* fields score, timestamp and computed.                                  *)
(***************************************************************************)
EXTENDS Integers, Sequences, FiniteSets, TLC

\* Longest smiles_list handed to compute_scores.
MaxLen == 3

\* Longest smiles_list of the batches over three valid structures (SpecMerge).
MaxMergeLen == 2

\* Longest smiles_list of the batches on the store shared with CacheTool (SpecStore).
MaxStoreLen == 2

\* Number of save_results calls of a behaviour: each call reads a later clock.
MaxTime == 2

\* Longest smiles_list of the batches of concurrent requests (SpecConc).
MaxConcLen == 1

\* Longest molecules list handed to get_cached_results (SpecCache).
MaxGetLen == 2

\* Longest smiles_list of the batches on a document that fails to save
\* (SpecSaveFault).
MaxFaultLen == 1

\* Largest magnitude of the str hashes handed to the fallback (SpecMock):
\* the hashes -MaxHash..MaxHash have every residue modulo 1000.
MaxHash == 500

\* Longest list handed to compute_scores and get_cached_results on the store
\* of several targets (SpecIso).
MaxIsoLen == 1

\* Most calls of save_interaction in one behaviour (SpecMemory): more than
\* the history keeps.
MaxSaves == 102

\* Structures the validator accepts / rejects (Chem.MolFromSmiles is None).
ValidSmiles == {"CCO", "CCN", "CCC"}

InvalidSmiles == {"not-a-valid-key"}

Smiles == ValidSmiles \cup InvalidSmiles

\* The keys of the batches of Spec: two valid structures and an invalid one.
MixedSmiles == {"CCO", "CCN", "not-a-valid-key"}

Targets == {"ACHE"}

\* The keys of the batches and of the saved results on the shared store.
StoreSmiles == {"CCO", "not-a-valid-key"}

\* The target argument of save_results: a name, or the empty string.
StoreTargets == {"ACHE", ""}

\* The scores handed to save_results: a number, or None.
SaveScores == {[kind |-> "number", v |-> -60], [kind |-> "null"]}

\* The key, the targets and the saved score of the store of several targets:
\* two target names and the empty string.
IsoSmiles == {"CCO"}

IsoTargets == {"ACHE", "default", ""}

IsoScores == {[kind |-> "number", v |-> -60]}

\* The keys of the batches of concurrent requests.
ConcSmiles == {"CCO", "CCN"}

\* Request threads of the API server.
Threads == {1, 2}

\* Hash salts of a Python process (str hashes are salted per process).
HashSeeds == {0, 1}

Range(s) == {s[i] : i \in 1..Len(s)}

ListsOver(universe, maxlen) == UNION {[1..n -> universe] : n \in 0..maxlen}

----------------------------------------------------------------------------
(* JSON values of the persisted document *)

Num(s) == [kind |-> "number", v |-> s]

Null == [kind |-> "null"]

\* The object save_results stores: score, timestamp (the clock reading) and computed.
Record(score, ts) ==
    [kind |-> "record", score |-> score, timestamp |-> ts, computed |-> TRUE]

EmptyDict == [k \in {} |-> Null]

\* d[k] = v of a Python dict
Put(d, k, v) == [x \in (DOMAIN d) \cup {k} |-> IF x = k THEN v ELSE d[x]]

\* The persisted document as the file system holds it: whether the file
\* exists, whether open() and json.load() succeed on it, and its content.
NoFile == [exists |-> FALSE, parses |-> TRUE, doc |-> EmptyDict]

----------------------------------------------------------------------------
(* The scoring backend (dockstring) as the code sees it *)

\* What target.dock(smi) hands back: one of the three formats the code
\* accepts, or an exception.
DockResults ==
    { [form |-> "dict", score |-> -75],
      [form |-> "tuple", items |-> <<-82, 0>>],
      [form |-> "float", value |-> -75] }

Raises == [form |-> "raise"]

DockOutcomes == DockResults \cup {Raises}

\* Lines 77-82: the score of a result in any of the three formats.
ExtractScore(result) ==
    CASE result.form = "dict" -> result.score
      [] result.form = "tuple" -> result.items[1]
      [] OTHER -> result.value

\* The scores target.dock can produce here.
RealScores == {ExtractScore(r) : r \in DockResults}

\* Lines 67-68: Chem.MolFromSmiles(smi) is not None.
MolFromSmiles_any(smi) == TRUE

MolFromSmiles(smi) == smi \in ValidSmiles

\* hash(smiles) of CPython for PYTHONHASHSEED 0 and 1, reduced to a
\* representative with the same sign and the same residue modulo 1000.
PyHash(seed, smiles) ==
    IF seed = 0
    THEN CASE smiles = "CCO" -> -897
           [] smiles = "CCN" -> -225
           [] smiles = "CCC" -> -738
           [] OTHER -> -996
    ELSE CASE smiles = "CCO" -> 930
           [] smiles = "CCN" -> 455
           [] smiles = "CCC" -> 961
           [] OTHER -> 172

\* Residues at which -3.0 - (h/1000.0)*9.0 is a decimal tie whose binary
\* float lies on the near-zero side, so round(score, 1) rounds towards zero.
FloatBelowTie == {150, 250, 450, 850, 950}

\* The score spread over 10.0 instead of 9.0.
MockScore_spread(hash_val) ==
    LET q == (10 * hash_val) \div 100
        r == (10 * hash_val) % 100
        up == IF r >= 50 THEN 1 ELSE 0
    IN  -(30 + q + up)

\* Lines 22-23: round(-3.0 - (hash_val / 1000.0) * 9.0, 1), in tenths
MockScore(hash_val) ==
    LET q == (9 * hash_val) \div 100
        r == (9 * hash_val) % 100
        up == IF r > 50 \/ (r = 50 /\ hash_val \notin FloatBelowTie) THEN 1 ELSE 0
    IN  -(30 + q + up)

\* Line 21: hash(smiles) % 1000, which Python takes in 0..999 whatever the
\* sign of the hash.
HashVal(h) == h % 1000

\* generate_mock_score(smiles) in a process with the hash salt seed
generate_mock_score(seed, smiles) == MockScore(HashVal(PyHash(seed, smiles)))

----------------------------------------------------------------------------
(* DockingTool *)

\* A load that hands back whatever the file holds, readable or not.
LoadCache_unguarded(f) == IF f.exists THEN f.doc ELSE EmptyDict

\* DockingTool._load_cache and CacheTool._load_cache (the same code): {} when
\* the file is missing, and {} from the except branch when open() or
\* json.load() raises.
LoadCache(f) ==
    IF ~f.exists
    THEN EmptyDict
    ELSE IF f.parses THEN f.doc ELSE EmptyDict

\* Lines 105-110 (cache_tool.py 85-90): the file is there and open() or
\* json.load() raises on it; the error is printed and {} is returned.
LoadFails(f) == f.exists /\ ~f.parses

\* DockingTool._save_cache and CacheTool._save_cache when open() and
\* json.dump() succeed: the file holds the document handed in.
SaveCache(cache) == [exists |-> TRUE, parses |-> TRUE, doc |-> cache]

\* How a _save_cache call can end: the document is written; makedirs() or
\* open() raises; or json.dump() (or a write it makes) raises after
\* open(..., 'w') has emptied the file.  The except branch prints the error
\* in both failing cases.
SaveOutcomes == {"saved", "open_failed", "dump_failed"}

\* The file a json.dump() that raised leaves: the beginning of a document.
Partial == [exists |-> TRUE, parses |-> FALSE, doc |-> EmptyDict]

\* Lines 112-119 (cache_tool.py 92-98): the file after _save_cache(cache)
\* that ended as io says.
SaveAttempt(f, cache, io) ==
    CASE io = "saved" -> SaveCache(cache)
      [] io = "open_failed" -> f
      [] OTHER -> Partial

\* A document narrowed to the partition of the target: the partitions of
\* the other targets are dropped.
EnsurePartition_single(loaded, target_name) ==
    IF target_name \in DOMAIN loaded
    THEN [tg \in {target_name} |-> loaded[tg]]
    ELSE [tg \in {target_name} |-> EmptyDict]

\* Lines 39-40: the target's partition is created when the document has none.
EnsurePartition(loaded, target_name) ==
    IF target_name \in DOMAIN loaded
    THEN loaded
    ELSE Put(loaded, target_name, EmptyDict)

\* A failed load_target that leaves real docking switched on.
BindBackend_unguarded(available, loadOk) ==
    IF available
    THEN [loads |-> 1, use_real_docking |-> TRUE]
    ELSE [loads |-> 0, use_real_docking |-> FALSE]

\* Lines 44-58: bind the backend to the target, once, before the loop.
BindBackend(available, loadOk) ==
    IF available
    THEN [loads |-> 1, use_real_docking |-> loadOk]
    ELSE [loads |-> 0, use_real_docking |-> FALSE]

\* target.dock(smi) for the outcomes drawn for this call
Dock(outcome, smi) == IF smi \in DOMAIN outcome THEN outcome[smi] ELSE Raises

\* Lines 62-65: the key is in the partition, its stored value is the result.
\* resolved: the value each iteration of the loop assigned, in input order.
CacheHit(st, smi, target_name) ==
    [st EXCEPT !.results = Put(@, smi, st.cache[target_name][smi]),
               !.resolved = Append(@, st.cache[target_name][smi])]

\* An invalid key dropped from the result mapping.
InvalidKey_skipped(st, smi) == st

\* Lines 68-71: an invalid key resolves to None and is not cached.
InvalidKey(st, smi) ==
    [st EXCEPT !.results = Put(@, smi, Null), !.resolved = Append(@, Null)]

\* Lines 91-93: the score is returned and put into the in-memory document.
Store(st, smi, target_name, score) ==
    [st EXCEPT
       !.results = Put(@, smi, Num(score)),
       !.resolved = Append(@, Num(score)),
       !.cache = Put(@, target_name, Put(@[target_name], smi, Num(score))),
       !.cache_modified = TRUE]

\* A failed dock call that turns real docking off for the rest of the batch.
ScoreNew_degrading(st, smi, target_name, outcome, seed) ==
    IF st.use_real_docking
    THEN LET res == Dock(outcome, smi)
         IN  IF res # Raises
             THEN Store([st EXCEPT !.docked = Append(@, smi)],
                        smi, target_name, ExtractScore(res))
             ELSE Store([st EXCEPT !.docked = Append(@, smi),
                                   !.failed = Append(@, smi),
                                   !.mocked = Append(@, smi),
                                   !.use_real_docking = FALSE],
                        smi, target_name, generate_mock_score(seed, smi))
    ELSE Store([st EXCEPT !.mocked = Append(@, smi)],
               smi, target_name, generate_mock_score(seed, smi))

\* Lines 73-93: a valid key the partition does not hold is docked, or given
\* the mock score when real docking is off or the dock call raises.
ScoreNew(st, smi, target_name, outcome, seed) ==
    IF st.use_real_docking
    THEN LET res == Dock(outcome, smi)
         IN  IF res # Raises
             THEN Store([st EXCEPT !.docked = Append(@, smi)],
                        smi, target_name, ExtractScore(res))
             ELSE Store([st EXCEPT !.docked = Append(@, smi),
                                   !.failed = Append(@, smi),
                                   !.mocked = Append(@, smi)],
                        smi, target_name, generate_mock_score(seed, smi))
    ELSE Store([st EXCEPT !.mocked = Append(@, smi)],
               smi, target_name, generate_mock_score(seed, smi))

\* An iteration that does not look the key up in the partition.
ScoreOne_rescoring(st, smi, target_name, outcome, seed) ==
    IF ~MolFromSmiles(smi)
    THEN InvalidKey(st, smi)
    ELSE ScoreNew(st, smi, target_name, outcome, seed)

\* One iteration of the loop of lines 60-93 for the key smi.
ScoreOne(st, smi, target_name, outcome, seed) ==
    IF smi \in DOMAIN st.cache[target_name]
    THEN CacheHit(st, smi, target_name)
    ELSE IF ~MolFromSmiles(smi)
    THEN InvalidKey(st, smi)
    ELSE ScoreNew(st, smi, target_name, outcome, seed)

RECURSIVE ScoreLoop(_, _, _, _, _, _)
ScoreLoop(st, smiles_list, i, target_name, outcome, seed) ==
    IF i > Len(smiles_list)
    THEN st
    ELSE ScoreLoop(ScoreOne(st, smiles_list[i], target_name, outcome, seed),
                   smiles_list, i + 1, target_name, outcome, seed)

\* What the loop leaves, with how the backend was bound.
BatchOf(st, bound, available, loadOk) ==
    [cache |-> st.cache, results |-> st.results,
     cache_modified |-> st.cache_modified,
     loads |-> bound.loads,
     backend |-> IF ~available THEN "unavailable"
                 ELSE IF loadOk THEN "loaded" ELSE "load_failed",
     docked |-> st.docked, failed |-> st.failed, mocked |-> st.mocked,
     resolved |-> st.resolved]

\* Lines 39-93 of compute_scores on the document loaded at line 38.
ScoreBatch(loaded, smiles_list, target_name, available, loadOk, outcome, seed) ==
    LET bound == BindBackend(available, loadOk)
        st0 == [cache |-> EnsurePartition(loaded, target_name),
                results |-> EmptyDict, cache_modified |-> FALSE,
                use_real_docking |-> bound.use_real_docking,
                docked |-> <<>>, failed |-> <<>>, mocked |-> <<>>,
                resolved |-> <<>>]
    IN  BatchOf(ScoreLoop(st0, smiles_list, 1, target_name, outcome, seed),
                bound, available, loadOk)

\* The in-memory document merged, key by key, into the document found on disk.
WriteBack_merged(f, batch) ==
    IF batch.cache_modified
    THEN LET disk == LoadCache(f)
             mine == batch.cache
             part(d, tg) == IF tg \in DOMAIN d THEN d[tg] ELSE EmptyDict
         IN  [file |-> SaveCache(
                  [tg \in DOMAIN disk \cup DOMAIN mine |->
                      [k \in DOMAIN part(disk, tg) \cup DOMAIN part(mine, tg) |->
                          IF k \in DOMAIN part(mine, tg)
                          THEN part(mine, tg)[k]
                          ELSE part(disk, tg)[k]]]),
              writes |-> 1]
    ELSE [file |-> f, writes |-> 0]

\* _save_cache called whether or not a score was computed.
WriteBack_always(f, batch) == [file |-> SaveCache(batch.cache), writes |-> 1]

\* The write left out: nothing is persisted.
WriteBack_dropped(f, batch) == [file |-> f, writes |-> 0]

\* Lines 95-97: the document after the call and the number of _save_cache calls.
WriteBack(f, batch) ==
    IF batch.cache_modified
    THEN [file |-> SaveCache(batch.cache), writes |-> 1]
    ELSE [file |-> f, writes |-> 0]

\* Lines 95-97 with a _save_cache call that ends as io says.
WriteBackIO(f, batch, io) ==
    IF batch.cache_modified
    THEN [file |-> SaveAttempt(f, batch.cache, io), writes |-> 1]
    ELSE [file |-> f, writes |-> 0]

\* The keys of the target partition of the persisted document.
Partition(f, target_name) ==
    IF target_name \in DOMAIN LoadCache(f)
    THEN LoadCache(f)[target_name]
    ELSE EmptyDict

----------------------------------------------------------------------------
(* CacheTool *)

\* Lines 19 and 30: target or "default".
TargetKey(target) == IF target = "" THEN "default" ELSE target

\* Lines 36-41: every (mol, score) of results is stored as a record.  The
\* records of one call carry one clock reading: the readings of a call are
\* microseconds apart and no later than those of the next call.
RECURSIVE StampAll(_, _, _, _)
StampAll(partition, results, todo, ts) ==
    IF todo = {}
    THEN partition
    ELSE LET mol == CHOOSE m \in todo : TRUE
         IN  StampAll(Put(partition, mol, Record(results[mol], ts)),
                      results, todo \ {mol}, ts)

\* save_results that stores the new records as the whole partition.
MergeResults_replacing(loaded, target, results, ts) ==
    Put(loaded, TargetKey(target),
        StampAll(EmptyDict, results, DOMAIN results, ts))

\* Lines 29-41 of save_results on the document loaded at line 29.
MergeResults(loaded, target, results, ts) ==
    LET target_key == TargetKey(target)
        cache == EnsurePartition(loaded, target_key)
    IN  Put(cache, target_key,
            StampAll(cache[target_key], results, DOMAIN results, ts))

\* get_cached_results with dict.get over every requested molecule: a
\* molecule the partition does not hold comes back mapped to None.
CachedResults_padded(f, molecules, target) ==
    LET cache == LoadCache(f)
        target_key == TargetKey(target)
    IN  IF target_key \notin DOMAIN cache
        THEN EmptyDict
        ELSE [mol \in Range(molecules) |->
                 IF mol \in DOMAIN cache[target_key]
                 THEN cache[target_key][mol]
                 ELSE Null]

\* Lines 18-25: what get_cached_results(molecules, target) returns.
CachedResults(f, molecules, target) ==
    LET cache == LoadCache(f)
        target_key == TargetKey(target)
    IN  IF target_key \notin DOMAIN cache
        THEN EmptyDict
        ELSE [mol \in {x \in Range(molecules) : x \in DOMAIN cache[target_key]} |->
                 cache[target_key][mol]]

\* Lines 77-78: what get_cache_hit_rate(molecules, target) returns, the
\* quotient len(cached) / len(molecules) kept as numerator and denominator;
\* 0.0 for an empty list.
HitRate(f, molecules, target) ==
    IF molecules = <<>>
    THEN [num |-> 0, den |-> 1]
    ELSE [num |-> Cardinality(DOMAIN CachedResults(f, molecules, target)),
          den |-> Len(molecules)]

\* Line 50: sum(len(target_data) for target_data in cache.values()).
RECURSIVE SumLen(_, _)
SumLen(cache, todo) ==
    IF todo = {}
    THEN 0
    ELSE LET tg == CHOOSE x \in todo : TRUE
         IN  Cardinality(DOMAIN cache[tg]) + SumLen(cache, todo \ {tg})

\* Line 9 (and docking_tool.py line 16): the path both tools default to.
cache_file == "data/docking_scores.json"

\* total_molecules counted as the number of distinct molecules of the store.
CacheStats_distinct(f) ==
    LET cache == LoadCache(f)
    IN  [total_targets |-> Cardinality(DOMAIN cache),
         total_molecules |->
             Cardinality(UNION {DOMAIN cache[tg] : tg \in DOMAIN cache}),
         target_counts |-> [tg \in DOMAIN cache |-> Cardinality(DOMAIN cache[tg])],
         cache_file |-> cache_file]

\* Lines 47-60: what get_cache_stats() returns.
CacheStats(f) ==
    LET cache == LoadCache(f)
    IN  [total_targets |-> Cardinality(DOMAIN cache),
         total_molecules |-> SumLen(cache, DOMAIN cache),
         target_counts |-> [tg \in DOMAIN cache |-> Cardinality(DOMAIN cache[tg])],
         cache_file |-> cache_file]

\* del cache[target]
Del(d, k) == [x \in (DOMAIN d) \ {k} |-> d[x]]

\* Line 64: the truth value of the target argument; given is FALSE when the
\* argument is left out (target=None).
Truthy(given, target) == given /\ target # ""

\* Lines 64-73: the document after clear_cache(target), with the number of
\* _save_cache and of os.remove calls.
Cleared(f, given, target) ==
    IF Truthy(given, target)
    THEN IF target \in DOMAIN LoadCache(f)
         THEN [file |-> SaveCache(Del(LoadCache(f), target)),
               writes |-> 1, removes |-> 0]
         ELSE [file |-> f, writes |-> 0, removes |-> 0]
    ELSE IF f.exists
         THEN [file |-> NoFile, writes |-> 0, removes |-> 1]
         ELSE [file |-> f, writes |-> 0, removes |-> 0]

\* What a finished compute_scores call leaves to observe.  repeat: the call
\* before it had the same arguments.  reads: the _load_cache calls; line 38
\* runs once in every call, before the list is looked at.
CallRecord(prev, smiles_list, target_name, before, batch, written) ==
    [op |-> "compute_scores", smiles_list |-> smiles_list, target_name |-> target_name,
     repeat |-> /\ prev.op = "compute_scores"
                /\ prev.smiles_list = smiles_list
                /\ prev.target_name = target_name,
     before |-> DOMAIN Partition(before, target_name),
     reads |-> 1, load_failed |-> LoadFails(before), save_failed |-> FALSE,
     results |-> batch.results, raised |-> FALSE,
     backend |-> batch.backend, loads |-> batch.loads,
     docked |-> batch.docked, failed |-> batch.failed, mocked |-> batch.mocked,
     resolved |-> batch.resolved,
     writes |-> written.writes]

NoCall ==
    [op |-> "none", smiles_list |-> <<>>, target_name |-> "", repeat |-> FALSE,
     before |-> {}, reads |-> 0, load_failed |-> FALSE, save_failed |-> FALSE,
     results |-> EmptyDict, raised |-> FALSE, backend |-> "unavailable", loads |-> 0,
     docked |-> <<>>, failed |-> <<>>, mocked |-> <<>>, resolved |-> <<>>,
     writes |-> 0]

\* What a finished save_results call leaves to observe; before: the
\* molecules its partition held on entry.
SaveRecord(target, results, before) ==
    [NoCall EXCEPT !.op = "save_results", !.target_name = target,
                   !.before = DOMAIN Partition(before, TargetKey(target)),
                   !.reads = 1, !.load_failed = LoadFails(before),
                   !.results = results, !.writes = 1]

\* What a finished get_cached_results call leaves to observe.
GetRecord(f, molecules, target) ==
    [NoCall EXCEPT !.op = "get_cached_results", !.smiles_list = molecules,
                   !.target_name = target,
                   !.reads = 1, !.load_failed = LoadFails(f),
                   !.results = CachedResults(f, molecules, target)]

\* What a finished get_cache_stats call leaves to observe.
StatsRecord(f) ==
    [op |-> "get_cache_stats", stats |-> CacheStats(f),
     load_failed |-> LoadFails(f), raised |-> FALSE, writes |-> 0]

\* What a finished clear_cache call leaves to observe.
ClearRecord(given, target, cleared) ==
    [op |-> "clear_cache", given |-> given, target_name |-> target,
     raised |-> FALSE, writes |-> cleared.writes, removes |-> cleared.removes]

\* What a finished get_cache_hit_rate call leaves to observe.
HitRateRecord(f, molecules, target) ==
    [op |-> "get_cache_hit_rate", smiles_list |-> molecules, target_name |-> target,
     rate |-> HitRate(f, molecules, target), raised |-> FALSE, writes |-> 0]

\* What a finished generate_mock_score call leaves to observe: the hash of
\* its key and the score returned.
MockRecord(h) ==
    [op |-> "generate_mock_score", hash |-> h, score |-> MockScore(HashVal(h)),
     raised |-> FALSE, writes |-> 0]

\* A request thread that has not called a tool yet.
Idle ==
    [pc |-> "idle", op |-> "none", smiles_list |-> <<>>, target_name |-> "",
     results |-> EmptyDict, loaded |-> EmptyDict, written |-> {}, wrote |-> FALSE]

----------------------------------------------------------------------------
(* MemoryTool (cache_tool.py) *)

\* Line 125: the number of interactions the history keeps.
KeepLast == 100

\* The queries, responses and contexts handed to save_interaction.
Queries == {"dock CCO"}

Responses == {"-6.0"}

Contexts == {"ACHE"}

\* Lines 115-120: the interaction save_interaction builds.
Interaction(timestamp, query, response, context) ==
    [timestamp |-> timestamp, query |-> query, response |-> response,
     context |-> context]

\* Lines 188 and 195: the memory of a missing or unreadable file.
EmptyMemory == [interactions |-> <<>>]

NoMemoryFile == [exists |-> FALSE, parses |-> TRUE, doc |-> EmptyMemory]

\* Lines 185-195: _load_memory.
LoadMemory(f) == IF f.exists /\ f.parses THEN f.doc ELSE EmptyMemory

\* Lines 197-203: the file after a _save_memory(memory) that completed.
SaveMemory(memory) == [exists |-> TRUE, parses |-> TRUE, doc |-> memory]

\* The slice seq[-n:] for n > 0.
LastOf(seq, n) ==
    IF Len(seq) > n THEN SubSeq(seq, Len(seq) - n + 1, Len(seq)) ELSE seq

\* A history cut to its first interactions, seq[:100].
Truncate_oldest(interactions) ==
    IF Len(interactions) > KeepLast
    THEN SubSeq(interactions, 1, KeepLast)
    ELSE interactions

\* Lines 125-126: a history longer than 100 is cut to its last 100.
Truncate(interactions) ==
    IF Len(interactions) > KeepLast
    THEN LastOf(interactions, KeepLast)
    ELSE interactions

\* Lines 113-128 on the loaded memory: append, cut, the memory to save.
Remembered(memory, interaction) ==
    [memory EXCEPT !.interactions = Truncate(Append(@, interaction))]

\* What a finished save_interaction leaves behind.  saved: every interaction
\* saved so far, in the order of the calls.
InteractionRecord(prev, interaction) ==
    [op |-> "save_interaction", interaction |-> interaction,
     saved |-> Append(IF prev.op = "save_interaction" THEN prev.saved ELSE <<>>,
                      interaction),
     raised |-> FALSE, writes |-> 1]

----------------------------------------------------------------------------
\* file: the persisted document data/docking_scores.json
\* DOCKSTRING_AVAILABLE, hashseed: the process (import result, hash salt)
\* now: the clock datetime.now() reads
\* last: the last finished call
\* threads: the request threads, each before, inside or after a call
\* memory_file: the persisted memory data/memory.json
VARIABLES file, DOCKSTRING_AVAILABLE, hashseed, now, last, threads, memory_file

vars == <<file, DOCKSTRING_AVAILABLE, hashseed, now, last, threads, memory_file>>

Init ==
    /\ file = NoFile
    /\ DOCKSTRING_AVAILABLE \in BOOLEAN
    /\ hashseed \in HashSeeds
    /\ now = 0
    /\ last = NoCall
    /\ threads = [t \in Threads |-> Idle]
    /\ memory_file = NoMemoryFile

\* The valid keys of the batch that the loaded partition does not hold:
\* the keys the backend can be asked about in this call.
ToScore(loaded, smiles_list, target_name) ==
    (Range(smiles_list) \cap ValidSmiles)
        \ DOMAIN Partition(SaveCache(loaded), target_name)

\* DockingTool.compute_scores(smiles_list, target_name)
compute_scores(smiles_list, target_name, loadOk, outcome) ==
    \E batch \in {ScoreBatch(LoadCache(file), smiles_list, target_name,
                            DOCKSTRING_AVAILABLE, loadOk, outcome, hashseed)} :
        \E written \in {WriteBack(file, batch)} :
            /\ file' = written.file
            /\ last' = CallRecord(last, smiles_list, target_name, file, batch, written)
            /\ UNCHANGED <<DOCKSTRING_AVAILABLE, hashseed, now, threads, memory_file>>

ComputeScores(universe, maxlen) ==
    \E smiles_list \in ListsOver(universe, maxlen), target_name \in Targets :
        \/ /\ DOCKSTRING_AVAILABLE
           /\ \E outcome \in [ToScore(LoadCache(file), smiles_list, target_name)
                                 -> DockOutcomes] :
                 compute_scores(smiles_list, target_name, TRUE, outcome)
        \/ compute_scores(smiles_list, target_name, FALSE, EmptyDict)

\* The process ends and a new one starts: the module is imported again
\* (DOCKSTRING_AVAILABLE) and str hashes get a new salt; the document stays.
Restart ==
    /\ DOCKSTRING_AVAILABLE' \in BOOLEAN
    /\ hashseed' \in HashSeeds
    /\ UNCHANGED <<file, now, last, threads, memory_file>>

Next == ComputeScores(MixedSmiles, MaxLen)

Spec == Init /\ [][Next]_vars

\* Batches over three valid structures.
NextMerge == ComputeScores(ValidSmiles, MaxMergeLen)

SpecMerge == Init /\ [][NextMerge]_vars

\* The application across process restarts.
NextRestart == ComputeScores(MixedSmiles, MaxLen) \/ Restart

SpecRestart == Init /\ [][NextRestart]_vars

\* CacheTool.save_results(molecules, target, results); molecules is not read.
save_results(target, results) ==
    /\ now < MaxTime
    /\ file' = SaveCache(MergeResults(LoadCache(file), target, results, now))
    /\ now' = now + 1
    /\ last' = SaveRecord(target, results, file)
    /\ UNCHANGED <<DOCKSTRING_AVAILABLE, hashseed, threads, memory_file>>

SaveResults ==
    \E target \in StoreTargets, keys \in SUBSET StoreSmiles :
        \E results \in [keys -> SaveScores] : save_results(target, results)

\* DockingTool and CacheTool on the same document (both default to
\* data/docking_scores.json).
NextStore == ComputeScores(StoreSmiles, MaxStoreLen) \/ SaveResults

SpecStore == Init /\ [][NextStore]_vars

\* CacheTool.get_cached_results(molecules, target)
get_cached_results(molecules, target) ==
    /\ last' = GetRecord(file, molecules, target)
    /\ UNCHANGED <<file, DOCKSTRING_AVAILABLE, hashseed, now, threads, memory_file>>

GetCachedResults ==
    \E molecules \in ListsOver(StoreSmiles, MaxGetLen), target \in StoreTargets :
        get_cached_results(molecules, target)

\* CacheTool.get_cache_stats()
get_cache_stats ==
    /\ last' = StatsRecord(file)
    /\ UNCHANGED <<file, DOCKSTRING_AVAILABLE, hashseed, now, threads, memory_file>>

\* CacheTool.clear_cache(target=None)
clear_cache(given, target) ==
    \E cleared \in {Cleared(file, given, target)} :
        /\ file' = cleared.file
        /\ last' = ClearRecord(given, target, cleared)
        /\ UNCHANGED <<DOCKSTRING_AVAILABLE, hashseed, now, threads, memory_file>>

\* clear_cache(t) for a target name or the empty string, and clear_cache().
ClearCache ==
    \/ \E target \in StoreTargets : clear_cache(TRUE, target)
    \/ clear_cache(FALSE, "")

\* The CacheTool on its document.
NextCache == SaveResults \/ GetCachedResults \/ get_cache_stats \/ ClearCache

SpecCache == Init /\ [][NextCache]_vars

\* DockingTool.compute_scores(smiles_list, target_name) with a _save_cache
\* call, when there is one, that ends as io says.
compute_scores_io(smiles_list, target_name, loadOk, outcome, io) ==
    \E batch \in {ScoreBatch(LoadCache(file), smiles_list, target_name,
                            DOCKSTRING_AVAILABLE, loadOk, outcome, hashseed)} :
        \E written \in {WriteBackIO(file, batch, io)} :
            /\ file' = written.file
            /\ last' = [CallRecord(last, smiles_list, target_name, file, batch, written)
                           EXCEPT !.save_failed = written.writes = 1 /\ io # "saved"]
            /\ UNCHANGED <<DOCKSTRING_AVAILABLE, hashseed, now, threads, memory_file>>

ComputeScoresIO(universe, maxlen) ==
    \E smiles_list \in ListsOver(universe, maxlen), target_name \in Targets,
       io \in SaveOutcomes :
        \/ /\ DOCKSTRING_AVAILABLE
           /\ \E outcome \in [ToScore(LoadCache(file), smiles_list, target_name)
                                 -> DockOutcomes] :
                 compute_scores_io(smiles_list, target_name, TRUE, outcome, io)
        \/ compute_scores_io(smiles_list, target_name, FALSE, EmptyDict, io)

\* CacheTool.save_results(molecules, target, results) with a _save_cache
\* call that ends as io says.
save_results_io(target, results, io) ==
    /\ now < MaxTime
    /\ file' = SaveAttempt(file, MergeResults(LoadCache(file), target, results, now), io)
    /\ now' = now + 1
    /\ last' = [SaveRecord(target, results, file) EXCEPT !.save_failed = io # "saved"]
    /\ UNCHANGED <<DOCKSTRING_AVAILABLE, hashseed, threads, memory_file>>

SaveResultsIO ==
    \E target \in StoreTargets, keys \in SUBSET StoreSmiles, io \in SaveOutcomes :
        \E results \in [keys -> SaveScores] : save_results_io(target, results, io)

\* Both tools on a document that can fail to save.
NextSaveFault ==
    \/ ComputeScoresIO(StoreSmiles, MaxFaultLen)
    \/ SaveResultsIO

SpecSaveFault == Init /\ [][NextSaveFault]_vars

\* CacheTool.get_cache_hit_rate(molecules, target)
get_cache_hit_rate(molecules, target) ==
    /\ last' = HitRateRecord(file, molecules, target)
    /\ UNCHANGED <<file, DOCKSTRING_AVAILABLE, hashseed, now, threads, memory_file>>

GetCacheHitRate ==
    \E molecules \in ListsOver(StoreSmiles, MaxGetLen), target \in StoreTargets :
        get_cache_hit_rate(molecules, target)

\* Hit rates on the stores save_results builds.
NextHitRate == SaveResults \/ GetCacheHitRate

SpecHitRate == Init /\ [][NextHitRate]_vars

\* DockingTool.generate_mock_score(smiles) for a key whose str hash is h in
\* this process.
GenerateMockScore ==
    \E h \in -MaxHash..MaxHash :
        /\ last' = MockRecord(h)
        /\ UNCHANGED <<file, DOCKSTRING_AVAILABLE, hashseed, now, threads, memory_file>>

\* The fallback over the hashes a key can have.
NextMock == GenerateMockScore

SpecMock == Init /\ [][NextMock]_vars

\* compute_scores, save_results and get_cached_results on one document that
\* holds the partitions of several targets.
ComputeScoresOn(universe, maxlen, targets) ==
    \E smiles_list \in ListsOver(universe, maxlen), target_name \in targets :
        \/ /\ DOCKSTRING_AVAILABLE
           /\ \E outcome \in [ToScore(LoadCache(file), smiles_list, target_name)
                                 -> DockOutcomes] :
                 compute_scores(smiles_list, target_name, TRUE, outcome)
        \/ compute_scores(smiles_list, target_name, FALSE, EmptyDict)

SaveResultsOn(universe, targets, scores) ==
    \E target \in targets, keys \in SUBSET universe :
        \E results \in [keys -> scores] : save_results(target, results)

GetCachedResultsOn(universe, maxlen, targets) ==
    \E molecules \in ListsOver(universe, maxlen), target \in targets :
        get_cached_results(molecules, target)

NextIso ==
    \/ ComputeScoresOn(IsoSmiles, MaxIsoLen, IsoTargets)
    \/ SaveResultsOn(IsoSmiles, IsoTargets, IsoScores)
    \/ GetCachedResultsOn(IsoSmiles, MaxIsoLen, IsoTargets)

SpecIso == Init /\ [][NextIso]_vars

\* MemoryTool.save_interaction(query, response, context) with the load and
\* the save completing; the timestamp is the clock reading of the call.
save_interaction(query, response, context) ==
    /\ now < MaxSaves
    /\ \E interaction \in {Interaction(now, query, response, context)} :
          /\ memory_file' =
                SaveMemory(Remembered(LoadMemory(memory_file), interaction))
          /\ last' = InteractionRecord(last, interaction)
    /\ now' = now + 1
    /\ UNCHANGED <<file, DOCKSTRING_AVAILABLE, hashseed, threads>>

SaveInteraction ==
    \E query \in Queries, response \in Responses, context \in Contexts :
        save_interaction(query, response, context)

NextMemory == SaveInteraction

SpecMemory == Init /\ [][NextMemory]_vars

\* The document becomes unreadable or unparsable behind the program's back
\* (its permissions change, or its text is cut or edited into invalid JSON).
Damage ==
    /\ file.exists /\ file.parses
    /\ file' = [file EXCEPT !.parses = FALSE]
    /\ UNCHANGED <<DOCKSTRING_AVAILABLE, hashseed, now, last, threads, memory_file>>

\* Both tools on a document that can fail to load.
NextLoadFault ==
    \/ ComputeScores(StoreSmiles, MaxStoreLen)
    \/ GetCachedResults
    \/ get_cache_stats
    \/ Damage

SpecLoadFault == Init /\ [][NextLoadFault]_vars

\* Two requests in flight: a thread loads the document (line 38 of
\* compute_scores, line 29 of save_results) and later runs the rest of the
\* call on what it loaded; other threads may run in between.
BeginCompute(t) ==
    /\ threads[t].pc = "idle"
    /\ \E smiles_list \in ListsOver(ConcSmiles, MaxConcLen), target_name \in Targets :
          threads' = [threads EXCEPT ![t] =
              [Idle EXCEPT !.pc = "loaded", !.op = "compute_scores",
                           !.smiles_list = smiles_list, !.target_name = target_name,
                           !.loaded = LoadCache(file)]]
    /\ UNCHANGED <<file, DOCKSTRING_AVAILABLE, hashseed, now, last, memory_file>>

finish_compute(t, loadOk, outcome) ==
    LET th == threads[t] IN
    \E batch \in {ScoreBatch(th.loaded, th.smiles_list, th.target_name,
                            DOCKSTRING_AVAILABLE, loadOk, outcome, hashseed)} :
        \E written \in {WriteBack(file, batch)} :
            /\ file' = written.file
            /\ threads' = [threads EXCEPT ![t] =
                  [th EXCEPT !.pc = "done", !.results = batch.results,
                             !.written = Range(batch.docked) \cup Range(batch.mocked),
                             !.wrote = written.writes > 0]]
            /\ UNCHANGED <<DOCKSTRING_AVAILABLE, hashseed, now, last, memory_file>>

FinishCompute(t) ==
    /\ threads[t].pc = "loaded" /\ threads[t].op = "compute_scores"
    /\ \/ /\ DOCKSTRING_AVAILABLE
          /\ \E outcome \in [ToScore(threads[t].loaded, threads[t].smiles_list,
                                     threads[t].target_name) -> DockOutcomes] :
                finish_compute(t, TRUE, outcome)
       \/ finish_compute(t, FALSE, EmptyDict)

BeginSave(t) ==
    /\ threads[t].pc = "idle"
    /\ \E keys \in SUBSET ConcSmiles, target \in Targets :
          \E results \in [keys -> {Num(-60)}] :
              threads' = [threads EXCEPT ![t] =
                  [Idle EXCEPT !.pc = "loaded", !.op = "save_results",
                               !.target_name = target, !.results = results,
                               !.loaded = LoadCache(file)]]
    /\ UNCHANGED <<file, DOCKSTRING_AVAILABLE, hashseed, now, last, memory_file>>

FinishSave(t) ==
    /\ threads[t].pc = "loaded" /\ threads[t].op = "save_results"
    /\ now < MaxTime
    /\ file' = SaveCache(MergeResults(threads[t].loaded, threads[t].target_name,
                                      threads[t].results, now))
    /\ now' = now + 1
    /\ threads' = [threads EXCEPT ![t] =
          [@ EXCEPT !.pc = "done", !.written = DOMAIN threads[t].results,
                    !.wrote = TRUE]]
    /\ UNCHANGED <<DOCKSTRING_AVAILABLE, hashseed, last, memory_file>>

NextConc ==
    \E t \in Threads :
        BeginCompute(t) \/ FinishCompute(t) \/ BeginSave(t) \/ FinishSave(t)

SpecConc == Init /\ [][NextConc]_vars

----------------------------------------------------------------------------
(* Properties *)

IsCompute(call) == call.op = "compute_scores"

\* The valid keys of a call that its target partition did not hold on entry.
NewKeys(call) == (Range(call.smiles_list) \cap ValidSmiles) \ call.before

\* C1: when compute_scores is called a second time with the same keys and
\* the same target right after a first call, the second call returns the
\* mapping the first call returned and calls neither target.dock nor the
\* fallback: every score comes from the cache.
C1_Idempotent ==
    [][(/\ IsCompute(last) /\ IsCompute(last')
        /\ last'.smiles_list = last.smiles_list
        /\ last'.target_name = last.target_name)
       => (/\ last'.results = last.results
           /\ last'.docked = <<>>
           /\ last'.mocked = <<>>)]_vars

\* A repeated call that answered a docked key and a fallback key from the cache.
C1_Witness ==
    /\ IsCompute(last) /\ last.repeat
    /\ last.docked = <<>> /\ last.mocked = <<>>
    /\ \E k1, k2 \in DOMAIN last.results :
          /\ last.results[k1] = Num(-75)
          /\ last.results[k2] = Num(generate_mock_score(hashseed, k2))

\* A stored value is a score record: an object with score, timestamp and
\* computed = true.
IsScoreRecord(entry) == entry.kind = "record" /\ entry.computed

\* This step is compute_scores(<<b, c>>, t) right after
\* compute_scores(<<a, b>>, t) on an empty partition.
SecondOfTwo(a, b, c, t) ==
    /\ IsCompute(last) /\ last.smiles_list = <<a, b>>
    /\ last.target_name = t /\ last.before = {}
    /\ IsCompute(last') /\ last'.smiles_list = <<b, c>>
    /\ last'.target_name = t

\* After that step the partition of t holds exactly a, b and c, each with
\* the score the call that computed it returned, and the stored value of b
\* is the one the first call wrote.
MergedAsReturned(a, b, c, t) ==
    /\ DOMAIN Partition(file', t) = {a, b, c}
    /\ Partition(file', t)[a] = last.results[a]
    /\ Partition(file', t)[b] = last.results[b]
    /\ Partition(file', t)[c] = last'.results[c]
    /\ Partition(file', t)[b] = Partition(file, t)[b]
    /\ last'.results[b] = last.results[b]

\* C2: compute_scores(<<a, b>>, t) followed by compute_scores(<<b, c>>, t)
\* leaves exactly the keys a, b and c in the partition of t, each with its
\* score, and b's stored record, timestamp included, is the record the
\* first call wrote.
C2_MergeKeepsFirstRecord ==
    [][\A a, b, c \in ValidSmiles, t \in Targets :
          SecondOfTwo(a, b, c, t)
          => /\ MergedAsReturned(a, b, c, t)
             /\ IsScoreRecord(Partition(file', t)[b])]_vars

\* The keys, the scores and the untouched stored value of b, without the
\* record: this much of C2 holds of compute_scores.
MergeAcrossCalls ==
    [][\A a, b, c \in ValidSmiles, t \in Targets :
          SecondOfTwo(a, b, c, t) => MergedAsReturned(a, b, c, t)]_vars

\* C3: a compute_scores call calls _save_cache at most once, and exactly
\* when the batch holds a valid key the partition did not hold; a call that
\* computes no score leaves the persisted document as it was.
C3_SingleWriteIfNew ==
    [][IsCompute(last')
       => (/\ last'.writes <= 1
           /\ (last'.writes = 1) <=> (NewKeys(last') # {})
           /\ (NewKeys(last') = {}) => (file' = file))]_vars

\* A call that held only an invalid key and a cached key, on an existing
\* document, and wrote nothing.
C3_Witness ==
    /\ IsCompute(last) /\ last.writes = 0 /\ file.exists
    /\ Range(last.smiles_list) \cap InvalidSmiles # {}
    /\ Range(last.smiles_list) \cap last.before # {}

\* C4: a key that is not cached and fails validation resolves to None, is
\* handed neither to target.dock nor to the fallback and is not stored; the
\* valid keys of the batch resolve to numbers, and the partition holds the
\* valid keys only.
C4_InvalidKeys ==
    IsCompute(last) =>
        /\ \A k \in (Range(last.smiles_list) \cap InvalidSmiles) \ last.before :
              /\ last.results[k] = Null
              /\ k \notin Range(last.docked) \cup Range(last.mocked)
              /\ k \notin DOMAIN Partition(file, last.target_name)
        /\ \A k \in Range(last.smiles_list) \cap ValidSmiles :
              /\ last.results[k].kind = "number"
              /\ k \in DOMAIN Partition(file, last.target_name)
        /\ DOMAIN Partition(file, last.target_name) \subseteq ValidSmiles

\* A batch of one invalid and two valid keys, the valid ones newly scored.
C4_Witness ==
    /\ IsCompute(last)
    /\ Range(last.smiles_list) \cap InvalidSmiles # {}
    /\ Cardinality(NewKeys(last)) = 2
    /\ DOMAIN Partition(file, last.target_name) = NewKeys(last)

\* C5: the mapping compute_scores returns has the keys of the input list,
\* each once, and no other key.
C5_ResultKeys ==
    IsCompute(last) => DOMAIN last.results = Range(last.smiles_list)

\* A batch with a duplicated key and an invalid key.
C5_Witness ==
    /\ IsCompute(last)
    /\ Len(last.smiles_list) > Cardinality(Range(last.smiles_list))
    /\ Range(last.smiles_list) \cap InvalidSmiles # {}
    /\ Cardinality(DOMAIN last.results) = 2

\* C8: load_target is called at most once in a call; when dockstring is
\* missing or load_target raises, target.dock is never called, every newly
\* scored key gets its mock score, and the call returns normally.
C8_BatchFallback ==
    IsCompute(last) =>
        /\ last.loads <= 1
        /\ last.backend \in {"unavailable", "load_failed"} =>
              /\ last.docked = <<>>
              /\ ~last.raised
              /\ \A k \in NewKeys(last) :
                    last.results[k] = Num(generate_mock_score(hashseed, k))

\* A batch of two new valid keys scored after load_target raised.
C8_Witness ==
    /\ IsCompute(last) /\ last.backend = "load_failed" /\ last.loads = 1
    /\ Cardinality(NewKeys(last)) = 2
    /\ Len(last.mocked) = 2

\* C9: with the backend loaded, every new valid key is handed to
\* target.dock, in input order, whatever happened to the keys before it; a
\* key whose dock call raised gets its mock score and the others get the
\* score target.dock returned.
C9_PerKeyFallback ==
    (IsCompute(last) /\ last.backend = "loaded") =>
        /\ Range(last.docked) = NewKeys(last)
        /\ Len(last.docked) = Cardinality(NewKeys(last))
        /\ last.mocked = last.failed
        /\ ~last.raised
        /\ \A k \in Range(last.failed) :
              last.results[k] = Num(generate_mock_score(hashseed, k))
        /\ \A k \in Range(last.docked) \ Range(last.failed) :
              /\ last.results[k].kind = "number"
              /\ last.results[k].v \in RealScores

\* The first dock call of a batch raised and the second returned a score.
C9_Witness ==
    /\ IsCompute(last) /\ last.backend = "loaded"
    /\ Len(last.docked) = 2
    /\ last.failed = <<last.docked[1]>>
    /\ last.results[last.docked[2]].v \in RealScores

\* C6: every entry of every partition of the persisted document is a score
\* record with computed = true, whichever of compute_scores and
\* save_results stored it.
C6_RecordFormat ==
    \A tg \in DOMAIN LoadCache(file) :
        \A k \in DOMAIN LoadCache(file)[tg] : IsScoreRecord(LoadCache(file)[tg][k])

\* C7: the fallback score of a key is the same before and after every
\* step, a restart of the process included.
C7_FallbackStable ==
    [][\A k \in Smiles :
          generate_mock_score(hashseed', k) = generate_mock_score(hashseed, k)]_vars

\* The partition a thread's call writes to.
WrittenPartition(th) ==
    IF th.op = "save_results" THEN TargetKey(th.target_name) ELSE th.target_name

\* C10: a call that writes replaces the whole document by the one it
\* loaded plus its own keys: every entry of the document after the write is
\* a key this call wrote or an entry of the document as this call loaded
\* it, so whatever another call persisted in between is gone, and nothing
\* reports it.
C10_LastWriterWins ==
    [][\A t \in Threads :
          (threads[t].pc = "loaded" /\ threads'[t].pc = "done" /\ threads'[t].wrote)
          => /\ threads'[t].written
                   \subseteq DOMAIN Partition(file', WrittenPartition(threads[t]))
             /\ \A tg \in DOMAIN LoadCache(file') :
                   \A k \in DOMAIN LoadCache(file')[tg] :
                      \/ tg = WrittenPartition(threads[t]) /\ k \in threads'[t].written
                      \/ /\ tg \in DOMAIN threads[t].loaded
                         /\ k \in DOMAIN threads[t].loaded[tg]
                         /\ LoadCache(file')[tg][k] = threads[t].loaded[tg][k]]_vars

\* Two overlapping calls have both written and returned, and a key one of
\* them wrote is not in the document.
C10_Witness ==
    /\ \A t \in Threads : threads[t].pc = "done" /\ threads[t].wrote
    /\ \E t \in Threads :
          \E k \in threads[t].written :
              k \notin DOMAIN Partition(file, WrittenPartition(threads[t]))

\* C11: get_cached_results returns exactly the requested molecules that the
\* target partition holds, each mapped to the value stored for it; a molecule
\* the partition does not hold is left out, not mapped to None; an unknown
\* target or no match gives the empty mapping; the call raises nothing and
\* leaves the persisted document as it was.
C11_GetExisting ==
    [][last'.op = "get_cached_results"
       => LET part == Partition(file, TargetKey(last'.target_name))
          IN  /\ DOMAIN last'.results = Range(last'.smiles_list) \cap DOMAIN part
              /\ \A mol \in DOMAIN last'.results :
                    /\ last'.results[mol] = part[mol]
                    /\ last'.results[mol] # Null
              /\ (part = EmptyDict) => (last'.results = EmptyDict)
              /\ ~last'.raised
              /\ file' = file]_vars

\* A lookup of two molecules of which the partition holds one, answered with
\* the record save_results stored.
C11_Witness ==
    /\ last.op = "get_cached_results"
    /\ Cardinality(Range(last.smiles_list)) = 2
    /\ Cardinality(DOMAIN last.results) = 1
    /\ \A mol \in DOMAIN last.results : IsScoreRecord(last.results[mol])

\* C12: save_results(target, results) is an upsert with a frame: afterwards
\* every molecule of results maps, in the target's partition, to one record
\* with the new score, the clock reading of this call and computed = true,
\* whatever was stored for it before; the partition exists even when the
\* target was unknown; every other molecule of the partition and every other
\* partition are as they were.
C12_UpsertFrame ==
    [][last'.op = "save_results"
       => LET target_key == TargetKey(last'.target_name)
              before == LoadCache(file)
              after == LoadCache(file')
          IN  /\ DOMAIN after = DOMAIN before \cup {target_key}
              /\ DOMAIN after[target_key]
                    = DOMAIN Partition(file, target_key) \cup DOMAIN last'.results
              /\ \A mol \in DOMAIN last'.results :
                    after[target_key][mol] = Record(last'.results[mol], now)
              /\ \A mol \in DOMAIN after[target_key] \ DOMAIN last'.results :
                    after[target_key][mol] = before[target_key][mol]
              /\ \A tg \in DOMAIN before \ {target_key} : after[tg] = before[tg]]_vars

\* A save that overwrote the earlier record of one molecule with another
\* score and left the record of the other molecule of the partition alone.
C12_Witness ==
    /\ last.op = "save_results"
    /\ \E mol \in DOMAIN last.results \cap last.before :
          \E other \in DOMAIN Partition(file, TargetKey(last.target_name))
                          \ DOMAIN last.results :
              /\ Partition(file, TargetKey(last.target_name))[mol].timestamp = 1
              /\ Partition(file, TargetKey(last.target_name))[mol].score = Null
              /\ Partition(file, TargetKey(last.target_name))[other]
                    = Record(Num(-60), 0)

\* This step is clear_cache with the arguments of the call before it.
ClearedAgain ==
    /\ last.op = "clear_cache" /\ last'.op = "clear_cache"
    /\ last'.given = last.given /\ last'.target_name = last.target_name

\* C14: clear_cache(target) removes the partition of that target, the one
\* save_results(target) writes, and leaves every other partition and its
\* records as they were; clear_cache() with no target leaves an empty store.
C14_ClearExact ==
    [][last'.op = "clear_cache"
       => IF last'.given
          THEN /\ TargetKey(last'.target_name) \notin DOMAIN LoadCache(file')
               /\ \A tg \in DOMAIN LoadCache(file) \ {TargetKey(last'.target_name)} :
                     /\ tg \in DOMAIN LoadCache(file')
                     /\ LoadCache(file')[tg] = LoadCache(file)[tg]
          ELSE LoadCache(file') = EmptyDict]_vars

\* The same for the targets the code takes as a target (line 64): this much
\* of C14 holds, a non-empty target loses its partition and nothing else,
\* and no target, or the empty string, empties the store.
ClearExactNamed ==
    [][last'.op = "clear_cache"
       => IF Truthy(last'.given, last'.target_name)
          THEN /\ DOMAIN LoadCache(file')
                     = DOMAIN LoadCache(file) \ {last'.target_name}
               /\ \A tg \in DOMAIN LoadCache(file') :
                     LoadCache(file')[tg] = LoadCache(file)[tg]
          ELSE LoadCache(file') = EmptyDict /\ ~file'.exists]_vars

\* C15: clear_cache is idempotent: a second clear_cache with the same
\* argument leaves the store the first one left; clearing a target whose
\* partition the store does not hold, or clearing when there is no document,
\* raises nothing, calls neither _save_cache nor os.remove and leaves the
\* document as it was.
C15_ClearIdempotent ==
    [][last'.op = "clear_cache"
       => /\ ~last'.raised
          /\ ClearedAgain => (file' = file)
          /\ (\/ ~file.exists
              \/ /\ last'.given
                 /\ TargetKey(last'.target_name) \notin DOMAIN LoadCache(file))
             => /\ file' = file
                /\ last'.writes = 0 /\ last'.removes = 0]_vars

\* The same with the target read as the code reads it: this much of C15
\* holds.
ClearIdempotentNamed ==
    [][last'.op = "clear_cache"
       => /\ ~last'.raised
          /\ ClearedAgain => (file' = file /\ last'.writes = 0 /\ last'.removes = 0)
          /\ (\/ ~file.exists
              \/ /\ Truthy(last'.given, last'.target_name)
                 /\ last'.target_name \notin DOMAIN LoadCache(file))
             => /\ file' = file
                /\ last'.writes = 0 /\ last'.removes = 0]_vars

\* C16: get_cache_stats reports, in every store state, total_targets equal
\* to the number of partitions, one count per partition equal to the number
\* of molecules it holds, and total_molecules equal to the number of
\* (partition, molecule) entries, the sum of the counts; the call raises
\* nothing and leaves the persisted document as it was.
C16_StatsConsistent ==
    [][last'.op = "get_cache_stats"
       => LET doc == LoadCache(file)
              stats == last'.stats
          IN  /\ stats.total_targets = Cardinality(DOMAIN doc)
              /\ DOMAIN stats.target_counts = DOMAIN doc
              /\ \A tg \in DOMAIN doc :
                    stats.target_counts[tg] = Cardinality(DOMAIN doc[tg])
              /\ stats.total_molecules
                    = Cardinality({e \in (DOMAIN doc) \X StoreSmiles :
                                      e[2] \in DOMAIN doc[e[1]]})
              /\ ~last'.raised
              /\ file' = file]_vars

\* Statistics of a store of two partitions that hold the same molecule.
C16_Witness ==
    /\ last.op = "get_cache_stats"
    /\ last.stats.total_targets = 2
    /\ last.stats.total_molecules = 3
    /\ \E tg \in DOMAIN last.stats.target_counts : last.stats.target_counts[tg] = 1

\* C17: compute_scores with an empty list returns the empty mapping, does
\* not load the persisted document and writes nothing.
C17_EmptyBatchNoAccess ==
    (IsCompute(last) /\ last.smiles_list = <<>>) =>
        /\ last.results = EmptyDict
        /\ last.reads = 0
        /\ last.writes = 0

\* C17, amended: compute_scores with an empty list returns the empty
\* mapping, scores no key and writes nothing; it loads the persisted
\* document once all the same.
C17_EmptyBatch ==
    (IsCompute(last) /\ last.smiles_list = <<>>) =>
        /\ last.results = EmptyDict
        /\ last.docked = <<>> /\ last.mocked = <<>>
        /\ last.writes = 0
        /\ last.reads = 1

\* An empty batch on a store that holds scores, with the backend bound.
C17_Witness ==
    /\ IsCompute(last) /\ last.smiles_list = <<>>
    /\ DOMAIN Partition(file, last.target_name) # {}
    /\ last.loads = 1

\* The number of calls of a sequence of calls that were made for the key k.
Calls(calls, k) == Cardinality({i \in 1..Len(calls) : calls[i] = k})

\* C18: within one compute_scores call target.dock is called only for valid
\* keys the target partition did not hold on entry, at most once for a key
\* however often the list repeats it, and not again for a key whose call
\* raised; every occurrence of a key in the list resolves to the same
\* score, the one the call returns for it.
C18_MinimalBackendUse ==
    IsCompute(last) =>
        /\ Range(last.docked) \subseteq NewKeys(last)
        /\ \A k \in Range(last.smiles_list) : Calls(last.docked, k) <= 1
        /\ \A k \in Range(last.failed) :
              Calls(last.docked, k) = 1 /\ Calls(last.failed, k) = 1
        /\ Len(last.resolved) = Len(last.smiles_list)
        /\ \A i \in 1..Len(last.smiles_list) :
              last.resolved[i] = last.results[last.smiles_list[i]]

\* A batch that repeats a new key whose dock call raised, next to a key the
\* partition held: one dock call, and both occurrences got the mock score.
C18_Witness ==
    /\ IsCompute(last) /\ Len(last.smiles_list) = 3
    /\ Range(last.smiles_list) \cap last.before # {}
    /\ Len(last.docked) = 1 /\ last.failed = last.docked
    /\ Calls(last.smiles_list, last.docked[1]) = 2
    /\ \A i \in 1..3 :
          last.smiles_list[i] = last.docked[1]
          => last.resolved[i] = Num(generate_mock_score(hashseed, last.docked[1]))

\* The score of a stored entry: of a record its score field, of a bare
\* number or null the entry itself.
ScoreOf(entry) == IF entry.kind = "record" THEN entry.score ELSE entry

\* C19: for every key the target partition held on entry, whichever of
\* compute_scores and save_results stored it, compute_scores returns the
\* score of the stored entry, a number or null, and not the stored record.
C19_HitReturnsScore ==
    IsCompute(last) =>
        \A k \in Range(last.smiles_list) \cap last.before :
            /\ last.results[k].kind \in {"number", "null"}
            /\ last.results[k] = ScoreOf(Partition(file, last.target_name)[k])

\* What holds of a cache hit: the call returns the stored value as it is,
\* which is the score when compute_scores stored it.
HitReturnsStoredValue ==
    IsCompute(last) =>
        \A k \in Range(last.smiles_list) \cap last.before :
            /\ last.results[k] = Partition(file, last.target_name)[k]
            /\ k \notin Range(last.docked) \cup Range(last.mocked)

\* C13: when the persisted document is there and cannot be read or parsed,
\* get_cached_results returns the empty mapping, get_cache_stats reports no
\* target and no molecule, and compute_scores scores every valid key of the
\* batch as on an empty store and leaves a document that holds the scores of
\* this call only; none of them raises.
C13_LoadFailureIsEmptyStore ==
    last.load_failed =>
        /\ ~last.raised
        /\ last.op = "get_cached_results" => last.results = EmptyDict
        /\ last.op = "get_cache_stats" =>
              /\ last.stats.total_targets = 0
              /\ last.stats.total_molecules = 0
              /\ last.stats.target_counts = EmptyDict
        /\ IsCompute(last) =>
              /\ last.before = {}
              /\ Range(last.docked) \cup Range(last.mocked)
                    = Range(last.smiles_list) \cap ValidSmiles
              /\ \A k \in Range(last.smiles_list) :
                    last.results[k].kind = IF k \in ValidSmiles THEN "number" ELSE "null"
              /\ (last.writes = 1 /\ file.parses) =>
                    LoadCache(file)
                       = [tg \in {last.target_name} |->
                             [k \in Range(last.smiles_list) \cap ValidSmiles |->
                                 last.results[k]]]

\* A call whose load of the document failed scored one key as new and
\* wrote the document again.
C13_Witness ==
    /\ IsCompute(last) /\ last.load_failed
    /\ last.writes = 1 /\ file.parses
    /\ Len(last.docked) + Len(last.mocked) = 1

\* C20: when _save_cache fails inside save_results or at the end of
\* compute_scores, the call raises nothing, compute_scores still returns a
\* result for every key of its list, and the persisted document keeps the
\* content it had before the call: every entry it held is still what a
\* lookup returns afterwards.
C20_SaveFailureKeepsDocument ==
    [][last'.save_failed
       => /\ ~last'.raised
          /\ IsCompute(last') => DOMAIN last'.results = Range(last'.smiles_list)
          /\ LoadCache(file') = LoadCache(file)
          /\ \A tg \in DOMAIN LoadCache(file) :
                \A k \in DOMAIN LoadCache(file)[tg] :
                    /\ k \in DOMAIN CachedResults(file', <<k>>, tg)
                    /\ CachedResults(file', <<k>>, tg)[k] = LoadCache(file)[tg][k]]_vars

\* What holds of a failed save: nothing is raised, compute_scores returns
\* its full mapping, and the file is either exactly as it was (open() or
\* makedirs() raised) or no longer loads (json.dump() raised).
SaveFailureSwallowed ==
    [][last'.save_failed
       => /\ ~last'.raised
          /\ IsCompute(last') => DOMAIN last'.results = Range(last'.smiles_list)
          /\ file' = file \/ LoadFails(file')]_vars

\* This step is clear_cache(t) right after save_results(t, r), for a target
\* argument t that is given (the empty string included).
ClearAfterSave ==
    /\ last.op = "save_results" /\ last'.op = "clear_cache"
    /\ last'.given /\ last'.target_name = last.target_name

\* C24: for every target argument t, the empty string included,
\* clear_cache(t) removes the partition that save_results(t, ...) writes and
\* get_cached_results(t, ...) reads, and only that one: after
\* save_results(t, r) and clear_cache(t) a lookup under t finds nothing and
\* every partition of another target is as it was.
C24_ConsistentAddressing ==
    [][ClearAfterSave
       => /\ TargetKey(last'.target_name) \notin DOMAIN LoadCache(file')
          /\ \A mol \in StoreSmiles :
                CachedResults(file', <<mol>>, last'.target_name) = EmptyDict
          /\ \A tg \in DOMAIN LoadCache(file) \ {TargetKey(last'.target_name)} :
                /\ tg \in DOMAIN LoadCache(file')
                /\ LoadCache(file')[tg] = LoadCache(file)[tg]]_vars

\* The same for non-empty targets: this much of C24 holds.
ConsistentAddressingNamed ==
    [][(ClearAfterSave /\ last'.target_name # "")
       => /\ TargetKey(last'.target_name) \notin DOMAIN LoadCache(file')
          /\ \A mol \in StoreSmiles :
                CachedResults(file', <<mol>>, last'.target_name) = EmptyDict
          /\ \A tg \in DOMAIN LoadCache(file) \ {TargetKey(last'.target_name)} :
                /\ tg \in DOMAIN LoadCache(file')
                /\ LoadCache(file')[tg] = LoadCache(file)[tg]]_vars

\* The positions of the list of a call whose molecule the partition of the
\* call's target holds.
CachedPositions(call) ==
    {i \in 1..Len(call.smiles_list) :
        call.smiles_list[i] \in DOMAIN Partition(file, TargetKey(call.target_name))}

\* C25: get_cache_hit_rate is 0.0 for an empty list and otherwise the
\* fraction of the requested entries that are cached: between 0 and 1, and 1
\* exactly when the partition holds every requested molecule, also when the
\* list repeats a molecule.
C25_HitRate ==
    last.op = "get_cache_hit_rate" =>
        IF last.smiles_list = <<>>
        THEN last.rate.num = 0
        ELSE /\ 0 <= last.rate.num /\ last.rate.num <= last.rate.den
             /\ last.rate.num * Len(last.smiles_list)
                   = last.rate.den * Cardinality(CachedPositions(last))
             /\ (last.rate.num = last.rate.den)
                   <=> (Cardinality(CachedPositions(last)) = Len(last.smiles_list))

\* The same for lists that name every molecule once: this much of C25 holds.
HitRateOfDistinct ==
    (/\ last.op = "get_cache_hit_rate"
     /\ Cardinality(Range(last.smiles_list)) = Len(last.smiles_list)) =>
        IF last.smiles_list = <<>>
        THEN last.rate.num = 0
        ELSE /\ 0 <= last.rate.num /\ last.rate.num <= last.rate.den
             /\ last.rate.num * Len(last.smiles_list)
                   = last.rate.den * Cardinality(CachedPositions(last))
             /\ (last.rate.num = last.rate.den)
                   <=> (Cardinality(CachedPositions(last)) = Len(last.smiles_list))

\* What holds of every list: the rate is between 0 and 1 and is 0.0 for an
\* empty list.
HitRateInRange ==
    last.op = "get_cache_hit_rate" =>
        /\ 0 <= last.rate.num /\ last.rate.num <= last.rate.den
        /\ (last.smiles_list = <<>>) => (last.rate.num = 0)

\* C22: the fallback score of every key lies in the closed range from -12.0
\* to -3.0, whatever hash the key has, and so do the fallback scores of the
\* keys of the batches.
C22_FallbackRange ==
    /\ last.op = "generate_mock_score" => (-120 <= last.score /\ last.score <= -30)
    /\ \A k \in Smiles :
          /\ -120 <= generate_mock_score(hashseed, k)
          /\ generate_mock_score(hashseed, k) <= -30

\* The fallback of a key with a negative hash of residue 999: the score is
\* -12.0, the lower end of the range.
C22_Witness ==
    /\ last.op = "generate_mock_score"
    /\ last.hash < 0 /\ HashVal(last.hash) = 999
    /\ last.score = -120

\* The partition a call addresses: compute_scores the one named by its
\* target, the CacheTool operations the one named by target or "default".
Addressed(call) ==
    IF IsCompute(call) THEN call.target_name ELSE TargetKey(call.target_name)

IsLookup(call) == call.op \in {"get_cached_results", "compute_scores"}

IsWrite(call) == call.op \in {"save_results", "compute_scores"}

Kept == LoadMemory(memory_file).interactions

\* C23: after any sequence of save_interaction calls the persisted list
\* holds at most 100 interactions, and they are the most recently saved
\* ones in the order they were saved.
C23_BoundedHistory ==
    last.op = "save_interaction"
    => /\ Len(Kept) <= 100
       /\ Len(Kept) = IF Len(last.saved) < 100 THEN Len(last.saved) ELSE 100
       /\ \A i \in 1..Len(Kept) :
             Kept[i] = last.saved[Len(last.saved) - Len(Kept) + i]

\* More than 100 interactions were saved: the file holds 100 and the first
\* saved is no longer among them.
C23_Witness ==
    /\ last.op = "save_interaction"
    /\ Len(last.saved) > 100
    /\ Len(Kept) = 100
    /\ \A i \in 1..Len(Kept) : Kept[i] # last.saved[1]
    /\ Kept[Len(Kept)] = last.interaction

====
